---- MODULE Spec2Model ----
(***************************************************************************)
(* Background monitoring engine of the Trip Ethiopia bot.                  *)
(*                                                                         *)
(*   Spec          the price-alert engine: monitor_prices ticks            *)
(*                 (tasks/price_monitor.py) interleaved with the alert     *)
(*                 handlers target_price_input and handle_alert_deletion   *)
(*                 (bot/handlers/alerts.py) on one asyncio event loop.     *)
(*   SpecReminders the reminder engine: send_reminders ticks               *)
(*                 (tasks/reminders.py) over the stored bookings.          *)
(*   SpecLoops     the two loops that run the ticks (SpecLoopsFair: under  *)
(*                 the scheduling of the event loop).                      *)
(*   SpecCurrency  the rate lookup and its cache (services/currency.py).   *)
(*   SpecSearch    the provider searches (services/trip_api.py).           *)
(*   SpecHandlers  the alert handlers alone, with their replies.           *)
(*                                                                         *)
(* Money is counted in hundredths (USD cents, ETB santim), the exchange    *)
(* rate in tenths.  The alert clock counts periods of 30 days, the         *)
(* reminder clock counts minutes.                                          *)
(***************************************************************************)
EXTENDS Integers, Sequences, FiniteSets, TLC

\* ------------------------------------------------------------------ bounds
MaxTime == 2        \* last value of the alert clock
MaxAlerts == 2      \* rows the price_alerts table may hold
MaxTarget == 1      \* target prices offered to a user: TargetStep * (1..MaxTarget)
MaxQuoteUsd == 3    \* quote prices are 0..MaxQuoteUsd whole dollars
MaxQuotes == 2      \* longest list the quote source returns
MaxBookings == 2    \* rows the bookings table may hold
MaxRemTicks == 2    \* ticks of the reminder loop that are followed
MaxDaysAhead == 2   \* a hotel check-in is booked 0..MaxDaysAhead days ahead
MaxItems == 2       \* longest list a tick of either loop works through
MaxStall == 2       \* a blocking call holds the event loop for 1..MaxStall minutes
MaxSends == 1       \* sends of a run after which the commit no longer fails
MaxFrames == 4      \* frames of a search the interpreter allows before RecursionError
MaxAmountUsd == 3   \* amounts converted: one cent, and 1..MaxAmountUsd dollars
MaxRateSteps == 2   \* rates the provider quotes: the fallback rate plus 1..MaxRateSteps birr

\* ------------------------------------------------------- program constants
NULL == -1                    \* SQL NULL / Python None in a numeric column
Inf == 1000000000             \* float('inf')
USD_TO_ETB_RATE_X10 == 555    \* settings.USD_TO_ETB_RATE = 55.5
ALERT_LIFETIME == 1           \* timedelta(days=30), one period of the alert clock
MIN_TARGET == 1               \* validate_number(price_str, min_value=1)
MINUTES_PER_HOUR == 60
HOURS_PER_DAY == 24
FLIGHT_WINDOW_MIN == 23       \* 23 <= hours_until_flight
FLIGHT_WINDOW_MAX == 25       \* hours_until_flight <= 25
HOTEL_DAYS_BEFORE == 1        \* days_until_checkin == 1
REMINDER_SLEEP == 60          \* asyncio.sleep(3600), in minutes
PRICE_CHECK_INTERVAL == 60    \* settings.PRICE_CHECK_INTERVAL = 3600 s, in minutes
ERROR_BACKOFF == 1            \* asyncio.sleep(60), in minutes

UserIds == {1, 2}
TargetStep == 111 * 100       \* 111 birr: what two dollars cost at the fallback rate
Targets == {TargetStep * k : k \in 1..MaxTarget}
QuotePrices == {100 * d : d \in 0..MaxQuoteUsd} \cup {NULL}   \* NULL: no price_usd key
Faults == {"none", "search", "convert", "user"}

VARIABLES
    now,                  \* datetime.now() of the alert engine
    ENABLE_PRICE_ALERTS,  \* settings.ENABLE_PRICE_ALERTS
    alerts,               \* table price_alerts: alerts[alert_id] is the committed row
    mpc,                  \* monitor_prices: "sleep" | "loop" | "sending"
    active_alerts,        \* the tick's query result, a sequence of alert ids
    idx,                  \* position of the for loop in active_alerts
    sess,                 \* the session's loaded copy of the alert being notified
    sent,                 \* sent[id]: calls of send_price_alert for the alert
    delivered,            \* delivered[id]: messages the channel accepted
    tick_log,             \* outcome of each evaluation of the current tick
    term_seen,            \* alerts some tick found not Active when it started
    skipped,              \* a tick has returned at the feature-flag test
    failed_lookup         \* Active alerts for which a quote lookup or conversion has raised

alertVars == <<now, ENABLE_PRICE_ALERTS, alerts, mpc, active_alerts, idx, sess,
               sent, delivered, tick_log, term_seen, skipped, failed_lookup>>

VARIABLES
    rnow,                 \* datetime.now() of the reminder engine, in minutes
    bookings,             \* table bookings: bookings[booking_id] is the committed row
    rpc,                  \* send_reminders: "sleep" | "loop" | "sending"
    rlist,                \* the tick's query result, a sequence of booking ids
    ridx,                 \* position of the for loop in rlist
    rticks,               \* ticks of run_reminders_loop started so far
    reminded,             \* reminded[id]: reminder sends for the booking
    rem_log               \* outcome of each evaluation of the current tick

remVars == <<rnow, bookings, rpc, rlist, ridx, rticks, reminded, rem_log>>

VARIABLES
    lpc,                  \* lpc[l]: where loop l is: "sleep" | "items" | "sending"
    timer,                \* timer[l]: minutes left of the sleep of loop l
    todo,                 \* todo[l]: rows of the tick's list not yet evaluated
    item_log,             \* item_log[l]: how each evaluation of the tick ended
    tick_error,           \* tick_error[l]: what failed in the last tick, outside the items
    late                  \* late[l]: time has passed while the tick of l was due

loopVars == <<lpc, timer, todo, item_log, tick_error, late>>

VARIABLES
    fx_cache,             \* CurrencyConverter._cache['USD_ETB'], NULL if not set
    fx_fresh,             \* _is_cache_valid(): the cache is younger than six hours
    fx_call,              \* the last call of convert_usd_to_etb and what it gave
    fx_last               \* the rate of the most recent fetch that gave one, NULL if none

fxVars == <<fx_cache, fx_fresh, fx_call, fx_last>>

VARIABLES
    api_key,              \* settings.TRIP_COM_API_KEY
    api_pc,               \* search_flights / search_hotels: "idle" | "entered" | "requesting" | "done"
    api_kind,             \* which of the two searches the call in progress is
    frames,               \* frames of the search function on the stack
    api_log,              \* how each provider request of the call ended
    api_result            \* what the call gave: "none" | "mock" | "provider" | "RecursionError"

apiVars == <<api_key, api_pc, api_kind, frames, api_log, api_result>>

VARIABLES
    del_req               \* the last deletion request and the reply it got

handlerVars == <<del_req>>

vars == <<alertVars, remVars, loopVars, fxVars, apiVars, handlerVars>>

\* ------------------------------------------------------------ pure helpers
Range(s) == {s[i] : i \in DOMAIN s}

RECURSIVE SeqsUpTo(_, _)
SeqsUpTo(S, n) ==
    IF n = 0 THEN {<<>>}
    ELSE LET shorter == SeqsUpTo(S, n - 1)
         IN  shorter \cup {Append(s, x) : s \in {t \in shorter : Len(t) = n - 1}, x \in S}

QuoteLists == SeqsUpTo(QuotePrices, MaxQuotes)

\* a permutation of the set S as a sequence: the order an unordered query returns
Orders(S) ==
    {s \in [1..Cardinality(S) -> S] : \A i, j \in 1..Cardinality(S) : i # j => s[i] # s[j]}

\* ------------------------------------------------ price_monitor.py, per alert
\* f.get('price_usd', float('inf')): a quote without a price counts as infinity
QuotePrice(q) == IF q = NULL THEN Inf ELSE q

\* min(f.get('price_usd', float('inf')) for f in flights), flights not empty
LowestPrice(quotes) ==
    CHOOSE m \in {QuotePrice(quotes[i]) : i \in DOMAIN quotes} :
        \A i \in DOMAIN quotes : m <= QuotePrice(quotes[i])

\* round(x / d) to the nearest integer, a tie to the even one (Python's round)
RoundHalfEven(x, d) ==
    LET q == x \div d
        r == x % d
    IN  IF 2 * r < d THEN q
        ELSE IF 2 * r > d THEN q + 1
        ELSE IF q % 2 = 0 THEN q ELSE q + 1

\* the rate get_usd_to_etb_rate returns while the provider is unreachable
Rates == {USD_TO_ETB_RATE_X10}

\* CurrencyConverter.convert_usd_to_etb: round(usd_amount * rate, 2)
ConvertUsdToEtb(usd, rate) ==
    IF usd = Inf THEN Inf ELSE RoundHalfEven(usd * rate, 10)

\* mutant: no test for an empty list, min(..., default=float('inf'))
CurrentPrice_default(quotes, rate) ==
    IF quotes = <<>> THEN ConvertUsdToEtb(Inf, rate)
    ELSE ConvertUsdToEtb(LowestPrice(quotes), rate)

\* lines 43 and 56-59: current_price stays None unless the list has a quote
CurrentPrice(quotes, rate) ==
    IF quotes = <<>> THEN NULL
    ELSE ConvertUsdToEtb(LowestPrice(quotes), rate)

\* `if current_price:` -- None and 0.0 are both false
PriceIsSet(p) == p # NULL /\ p # 0

\* mutant: the feature flag is not consulted
TickEnabled_always(flag) == TRUE

\* `if not settings.ENABLE_PRICE_ALERTS: return`, lines 21-23
TickEnabled(flag) == flag

\* mutant: the expiry test allows one more period of grace
IsExpired_grace(row, t) == row.expires_at # NULL /\ row.expires_at + 1 < t

\* `alert.expires_at and alert.expires_at < datetime.now()`
IsExpired(row, t) == row.expires_at # NULL /\ row.expires_at < t

\* mutant: the comparison is turned around
MeetsTarget_inverted(p, row) == p >= row.target_price

\* `current_price <= alert.target_price`
MeetsTarget(p, row) == p <= row.target_price

\* mutant: the query leaves out only the cancelled alerts
ActiveIds_notCancelled(table) == {a \in DOMAIN table : table[a].status # "Cancelled"}

\* db.query(PriceAlert).filter(PriceAlert.status == AlertStatus.ACTIVE).all()
ActiveIds(table) == {a \in DOMAIN table : table[a].status = "Active"}

NoObject == [alert_id |-> 0, status |-> "", triggered_at |-> NULL]

\* the row as the session holds it after the refresh that follows a commit
Loaded(a, row) == [alert_id |-> a, status |-> row.status, triggered_at |-> row.triggered_at]

\* mutant: the status is written without its timestamp
FlushStatus_statusOnly(row, obj, s, t) ==
    [row EXCEPT !.status = IF obj.status # s THEN s ELSE @]

\* mutant: the commit writes the loaded status back instead of the new one
FlushStatus_writeLoaded(row, obj, s, t) ==
    [row EXCEPT !.status = obj.status, !.triggered_at = t]

\* the UPDATE the unit of work emits for `alert.status = s; alert.triggered_at = t`:
\* only the columns whose value differs from the loaded one are written
FlushStatus(row, obj, s, t) ==
    [row EXCEPT !.status = IF obj.status # s THEN s ELSE @,
                !.triggered_at = IF obj.triggered_at # t THEN t ELSE @]

\* what one evaluation did: its outcome, the converted price it saw, whether
\* it called the quote source and whether that returned any quote (0: an
\* empty list, 1: a list with quotes, NULL: the call was not made or raised)
LogEntry(a, outcome, seen, lookup, returned) ==
    [alert |-> a, outcome |-> outcome, seen |-> seen, lookup |-> lookup,
     returned |-> returned]

\* One pass of the for-loop body (lines 35-101) for an alert that is not
\* expired, up to its `continue`, its end, or the await of send_price_alert.
\* fault names the call that raises, if any.
\* outcome: how the pass ends; price: the value committed to current_price
\* (NULL: none); seen: the converted lowest price it computed (NULL: none)
Evaluate(row, quotes, rate, fault) ==
    IF fault = "search" THEN [outcome |-> "raised", price |-> NULL, seen |-> NULL]
    ELSE IF quotes # <<>> /\ fault = "convert"
         THEN [outcome |-> "raised", price |-> NULL, seen |-> NULL]
    ELSE LET p == CurrentPrice(quotes, rate)
         IN  IF ~PriceIsSet(p)
             THEN [outcome |-> IF p = NULL THEN "noquotes" ELSE "unset",
                   price |-> NULL, seen |-> p]
             ELSE IF ~MeetsTarget(p, row) THEN [outcome |-> "above", price |-> p, seen |-> p]
             ELSE IF fault = "user" THEN [outcome |-> "raised", price |-> p, seen |-> p]
             ELSE [outcome |-> "send", price |-> p, seen |-> p]

\* What the collaborators do during one evaluation: the list the quote source
\* returns and the call that raises.  A raising search returns no list; a raising
\* conversion or user lookup is tried on every list of one quote.
EvalInputs ==
    {[quotes |-> q, fault |-> "none"] : q \in QuoteLists}
    \cup {[quotes |-> <<>>, fault |-> "search"]}
    \cup {[quotes |-> q, fault |-> f] :
             q \in {l \in QuoteLists : Len(l) = 1}, f \in {"convert", "user"}}

\* what the log keeps of the list the quote source returned
Returned(in) ==
    IF in.fault = "search" THEN NULL ELSE IF in.quotes = <<>> THEN 0 ELSE 1

\* the quote lookup (lines 48-54) or the conversion (line 59) raises
LookupRaises(in) == in.fault \in {"search", "convert"}

\* status written by lines 97-98
TriggeredStatus == "Triggered"

\* status written by line 38
ExpiredStatus == "Expired"

\* status written by handle_alert_deletion, line 173
CancelledStatus == "Cancelled"

\* mutant: a caught exception ends the for loop
AfterException_abort(i, list) == Len(list) + 1

\* where the for loop goes after an exception is caught (lines 103-105: continue)
AfterException(i, list) == i + 1

\* ------------------------------------------------------------ alert engine
AlertInit ==
    /\ now = 0
    /\ ENABLE_PRICE_ALERTS \in BOOLEAN
    /\ alerts = <<>>
    /\ mpc = "sleep"
    /\ active_alerts = <<>>
    /\ idx = 1
    /\ sess = NoObject
    /\ sent = [a \in 1..MaxAlerts |-> 0]
    /\ delivered = [a \in 1..MaxAlerts |-> 0]
    /\ tick_log = <<>>
    /\ term_seen = {}
    /\ skipped = FALSE
    /\ failed_lookup = {}

\* the clock moves on, at any point of any task
AdvanceTime ==
    /\ now < MaxTime
    /\ now' = now + 1
    /\ UNCHANGED <<ENABLE_PRICE_ALERTS, alerts, mpc, active_alerts, idx, sess,
                   sent, delivered, tick_log, term_seen, skipped, failed_lookup,
                   remVars, loopVars, fxVars, apiVars, handlerVars>>

\* Handlers run on the event loop only while monitor_prices is suspended:
\* in its sleep between ticks or at the await of send_price_alert.
MonitorSuspended == mpc \in {"sleep", "sending"}

\* Users are numbered in the order in which they first create an alert: the
\* creator of the next alert is an owner of a stored alert or the next new user.
Creators(table) ==
    {u \in UserIds : u <= Cardinality({table[a].user_id : a \in DOMAIN table}) + 1}

\* target_price_input, lines 111-129
CreateAlert(user_id, price) ==
    /\ MonitorSuspended
    /\ Len(alerts) < MaxAlerts
    /\ price >= MIN_TARGET * 100
    /\ alerts' = Append(alerts, [user_id |-> user_id,
                                 type |-> "Flight",
                                 target_price |-> price,
                                 current_price |-> NULL,
                                 status |-> "Active",
                                 triggered_at |-> NULL,
                                 expires_at |-> now + ALERT_LIFETIME])
    /\ UNCHANGED <<now, ENABLE_PRICE_ALERTS, mpc, active_alerts, idx, sess,
                   sent, delivered, tick_log, term_seen, skipped, failed_lookup,
                   remVars, loopVars, fxVars, apiVars, handlerVars>>

\* mutant: the row is looked up by its id alone
FindAlert_anyOwner(table, alert_id, user_id) ==
    IF alert_id \in DOMAIN table THEN alert_id ELSE 0

\* the row handle_alert_deletion finds (lines 167-170), 0 if none
FindAlert(table, alert_id, user_id) ==
    IF alert_id \in DOMAIN table /\ table[alert_id].user_id = user_id
    THEN alert_id ELSE 0

\* the answer of handle_alert_deletion: alert_deleted (lines 176-182) or
\* alert_not_found (lines 185-187)
DeletionReply(found) == IF found # 0 THEN "deleted" ELSE "not_found"

\* handle_alert_deletion, lines 160-174: what it does to the store
DeletionWrites(user_id, alert_id) ==
    /\ MonitorSuspended
    /\ LET found == FindAlert(alerts, alert_id, user_id)
       IN  IF found # 0
           THEN /\ alerts' = [alerts EXCEPT ![found].status = CancelledStatus]
                /\ failed_lookup' = failed_lookup \ {found}
           ELSE UNCHANGED <<alerts, failed_lookup>>
    /\ UNCHANGED <<now, ENABLE_PRICE_ALERTS, mpc, active_alerts, idx, sess,
                   sent, delivered, tick_log, term_seen, skipped,
                   remVars, loopVars, fxVars, apiVars>>

\* handle_alert_deletion as the alert engine meets it
DeleteAlert(user_id, alert_id) ==
    /\ DeletionWrites(user_id, alert_id)
    /\ UNCHANGED handlerVars

NoRequest == [user_id |-> 0, alert_id |-> 0, reply |-> ""]

HandlerInit == del_req = NoRequest

\* handle_alert_deletion, lines 152-190, with the message it answers
HandleAlertDeletion(user_id, alert_id) ==
    /\ DeletionWrites(user_id, alert_id)
    /\ del_req' = [user_id |-> user_id, alert_id |-> alert_id,
                   reply |-> DeletionReply(FindAlert(alerts, alert_id, user_id))]

\* the alert handlers of one chat session, the monitor asleep
HandlerNext ==
    \/ AdvanceTime
    \/ \E u \in Creators(alerts), p \in Targets : CreateAlert(u, p)
    \/ \E u \in UserIds, a \in 1..MaxAlerts : HandleAlertDeletion(u, a)

\* monitor_prices, lines 21-32: the flag, the session, the query
MonitorStart ==
    /\ mpc = "sleep"
    /\ IF ~TickEnabled(ENABLE_PRICE_ALERTS)
       THEN /\ skipped' = TRUE
            /\ UNCHANGED <<mpc, active_alerts, idx, tick_log, term_seen>>
       ELSE /\ \E order \in Orders(ActiveIds(alerts)) : active_alerts' = order
            /\ idx' = 1
            /\ mpc' = "loop"
            /\ tick_log' = <<>>
            /\ term_seen' = term_seen \cup
                   {a \in DOMAIN alerts :
                        alerts[a].status \in {"Triggered", "Cancelled", "Expired"}}
            /\ UNCHANGED skipped
    /\ UNCHANGED <<now, ENABLE_PRICE_ALERTS, alerts, sess, sent, delivered, failed_lookup,
                   remVars, loopVars, fxVars, apiVars, handlerVars>>

\* monitor_prices, lines 34-94 for the alert at idx: the expiry test, the quote
\* lookup, the conversion, the price update and the call of send_price_alert
EvalAlert ==
    /\ mpc = "loop"
    /\ idx <= Len(active_alerts)
    /\ LET a == active_alerts[idx]
           row == alerts[a]
       IN  IF IsExpired(row, now)
           THEN /\ alerts' = [alerts EXCEPT ![a].status = ExpiredStatus]
                /\ tick_log' = Append(tick_log, LogEntry(a, "expired", NULL, FALSE, NULL))
                /\ idx' = idx + 1
                /\ failed_lookup' = failed_lookup \ {a}
                /\ UNCHANGED <<mpc, sess, sent>>
           ELSE \E in \in EvalInputs, rate \in Rates :
                LET r == Evaluate(row, in.quotes, rate, in.fault)
                    updated == IF r.price # NULL
                               THEN [alerts EXCEPT ![a].current_price = r.price]
                               ELSE alerts
                IN  /\ alerts' = updated
                    /\ failed_lookup' = IF LookupRaises(in) /\ row.status = "Active"
                                        THEN failed_lookup \cup {a}
                                        ELSE failed_lookup
                    /\ tick_log' = Append(tick_log,
                           LogEntry(a, r.outcome, r.seen, TRUE, Returned(in)))
                    /\ IF r.outcome = "send"
                       THEN /\ sent' = [sent EXCEPT ![a] = @ + 1]
                            /\ sess' = Loaded(a, updated[a])
                            /\ mpc' = "sending"
                            /\ UNCHANGED idx
                       ELSE /\ idx' = IF r.outcome = "raised"
                                      THEN AfterException(idx, active_alerts)
                                      ELSE idx + 1
                            /\ UNCHANGED <<mpc, sess, sent>>
    /\ UNCHANGED <<now, ENABLE_PRICE_ALERTS, active_alerts, delivered, term_seen, skipped,
                   remVars, loopVars, fxVars, apiVars, handlerVars>>

\* mutant: the alert is marked only when the message was delivered
MarksTriggered_onlyDelivered(ok) == ok

\* lines 96-99 follow the await whatever the delivery did: send_price_alert
\* returns nothing and raises nothing
MarksTriggered(ok) == TRUE

\* The commit of line 99 may fail (the store is gone); the exception is caught
\* by the `except Exception` of the row and the stored row stays as it was.
\* A failing commit is followed for the first MaxSends sends of a run.
CommitOutcomes(n) == IF n <= MaxSends THEN BOOLEAN ELSE {TRUE}

RECURSIVE SendsUpTo(_, _)
\* number of price-drop sends made so far for the alerts 1..n
SendsUpTo(counts, n) == IF n = 0 THEN 0 ELSE counts[n] + SendsUpTo(counts, n - 1)

\* how the evaluation of the alert ends once the send has come back
SendOutcome(ok, written) ==
    IF ~MarksTriggered(ok) THEN "raised"
    ELSE IF written THEN "triggered" ELSE "unwritten"

\* monitor_prices, lines 89-101: send_price_alert returns (it swallows a failed
\* delivery), the alert is marked triggered and committed
SendReturn ==
    /\ mpc = "sending"
    /\ LET a == sess.alert_id
       IN  \E ok \in BOOLEAN, written \in CommitOutcomes(SendsUpTo(sent, MaxAlerts)) :
              /\ delivered' = [delivered EXCEPT ![a] = IF ok THEN @ + 1 ELSE @]
              /\ alerts' = IF SendOutcome(ok, written) = "triggered"
                           THEN [alerts EXCEPT
                                   ![a] = FlushStatus(@, sess, TriggeredStatus, now)]
                           ELSE alerts
              /\ tick_log' = [tick_log EXCEPT
                                ![Len(tick_log)].outcome = SendOutcome(ok, written)]
              /\ failed_lookup' = IF SendOutcome(ok, written) = "triggered"
                                  THEN failed_lookup \ {a} ELSE failed_lookup
    /\ sess' = NoObject
    /\ idx' = idx + 1
    /\ mpc' = "loop"
    /\ UNCHANGED <<now, ENABLE_PRICE_ALERTS, active_alerts, sent, term_seen, skipped,
                   remVars, loopVars, fxVars, apiVars, handlerVars>>

\* monitor_prices, lines 110-111, and the sleep of run_price_monitor_loop
TickEnd ==
    /\ mpc = "loop"
    /\ idx > Len(active_alerts)
    /\ mpc' = "sleep"
    /\ active_alerts' = <<>>
    /\ idx' = 1
    /\ tick_log' = <<>>
    /\ UNCHANGED <<now, ENABLE_PRICE_ALERTS, alerts, sess, sent, delivered,
                   term_seen, skipped, failed_lookup, remVars, loopVars, fxVars, apiVars, handlerVars>>

AlertNext ==
    \/ AdvanceTime
    \/ \E u \in Creators(alerts), p \in Targets : CreateAlert(u, p)
    \/ \E u \in UserIds, a \in 1..MaxAlerts : DeleteAlert(u, a)
    \/ MonitorStart
    \/ EvalAlert
    \/ SendReturn
    \/ TickEnd

\* ------------------------------------------------- properties, alert engine
\* a step of monitor_prices (every one moves mpc, idx or the log)
MonitorStep == mpc' # mpc \/ idx' # idx \/ tick_log' # tick_log

\* the step that starts the evaluation of an alert, and what it logged
EvalStep == Len(tick_log') = Len(tick_log) + 1
NewEntry == tick_log'[Len(tick_log')]

\* the alert is stored Active and its expiry, if any, is not in the past
ActiveUnexpired(a) ==
    /\ alerts[a].status = "Active"
    /\ ~(alerts[a].expires_at # NULL /\ alerts[a].expires_at < now)

\* C1: an evaluation (no call raising) of an Active, unexpired alert whose
\* converted lowest price is at or below the target, zero included, calls the
\* price-drop send exactly once and ends with the alert Triggered and
\* TriggeredAt set.
C1_TriggersAtOrBelowTarget ==
    [][ /\ EvalStep =>
             LET e == NewEntry
                 a == e.alert
             IN  ( /\ ActiveUnexpired(a)
                   /\ e.outcome # "raised"
                   /\ e.seen # NULL
                   /\ e.seen <= alerts[a].target_price )
                 => (sent'[a] = sent[a] + 1 /\ mpc' = "sending")
        /\ (mpc = "sending" /\ mpc' # "sending"
               /\ tick_log'[Len(tick_log')].outcome # "unwritten") =>
             /\ alerts'[sess.alert_id].status = "Triggered"
             /\ alerts'[sess.alert_id].triggered_at # NULL
             /\ sent' = sent
      ]_vars

\* C2: the evaluation of an Active alert whose ExpiresAt is set and in the past
\* makes it Expired, sends nothing, calls no quote lookup and leaves
\* CurrentPrice and TriggeredAt as they were.
C2_ExpiredSilently ==
    [][ EvalStep =>
          LET e == NewEntry
              a == e.alert
          IN  ( /\ alerts[a].status = "Active"
                /\ alerts[a].expires_at # NULL
                /\ alerts[a].expires_at < now )
              => /\ alerts'[a].status = "Expired"
                 /\ ~e.lookup
                 /\ sent' = sent
                 /\ delivered' = delivered
                 /\ mpc' = "loop"
                 /\ alerts'[a].current_price = alerts[a].current_price
                 /\ alerts'[a].triggered_at = alerts[a].triggered_at
      ]_vars

\* C2 witness: a tick has expired an alert that carried a price from an earlier
\* tick, and the price is still there.
C2_Witness ==
    \E i \in DOMAIN tick_log :
        /\ tick_log[i].outcome = "expired"
        /\ alerts[tick_log[i].alert].status = "Expired"
        /\ alerts[tick_log[i].alert].current_price # NULL
        /\ sent[tick_log[i].alert] = 0

\* C3: the evaluation of an Active, unexpired alert whose converted lowest
\* price is above the target stores that price as CurrentPrice, keeps the
\* alert Active with TriggeredAt null, and sends nothing.
C3_AboveTargetOnlyUpdatesPrice ==
    [][ EvalStep =>
          LET e == NewEntry
              a == e.alert
          IN  ( /\ ActiveUnexpired(a)
                /\ e.seen # NULL
                /\ e.seen > alerts[a].target_price )
              => /\ alerts'[a].current_price = e.seen
                 /\ alerts'[a].status = "Active"
                 /\ alerts'[a].triggered_at = NULL
                 /\ sent' = sent
                 /\ delivered' = delivered
                 /\ mpc' = "loop"
      ]_vars

\* C3 witness: a tick has evaluated an alert at a price above its target and
\* the alert is Active with that price stored.
C3_Witness ==
    \E i \in DOMAIN tick_log :
        LET e == tick_log[i]
        IN  /\ e.outcome = "above"
            /\ e.seen > alerts[e.alert].target_price
            /\ alerts[e.alert].status = "Active"
            /\ alerts[e.alert].current_price = e.seen
            /\ alerts[e.alert].triggered_at = NULL
            /\ sent[e.alert] = 0

\* C4: once an alert is stored Cancelled, no step changes its status,
\* CurrentPrice or TriggeredAt or sends a price-drop notification for it.
C4_CancelledIsLeftAlone ==
    [][ \A a \in DOMAIN alerts :
          alerts[a].status = "Cancelled"
          => (alerts'[a] = alerts[a] /\ sent'[a] = sent[a]) ]_vars

\* C5: the alerts a tick evaluates were stored Active when it started; an
\* alert that some tick found Triggered, Cancelled or Expired at its start is
\* never evaluated, looked up, notified or changed by a step of monitor_prices.
C5_OnlyActiveAtTickStart ==
    [][ /\ \A i \in DOMAIN active_alerts' : active_alerts'[i] \notin term_seen'
        /\ MonitorStep =>
             \A a \in term_seen :
                 /\ alerts'[a] = alerts[a]
                 /\ sent'[a] = sent[a]
                 /\ delivered'[a] = delivered[a]
                 /\ EvalStep => NewEntry.alert # a
      ]_vars

\* C5 witness: a tick is evaluating Active alerts while an alert that was
\* terminal when the tick started sits in the table.
C5_Witness ==
    /\ mpc = "loop"
    /\ idx > 1
    /\ \E a \in term_seen : alerts[a].status \in {"Triggered", "Expired"}

\* C6: an alert that is Triggered, Cancelled or Expired is not Active after any
\* step.
C6_TerminalNeverActiveAgain ==
    [][ \A a \in DOMAIN alerts :
          alerts[a].status # "Active" => alerts'[a].status # "Active" ]_vars

\* C6 witness: an alert was cancelled while a tick that lists it was suspended
\* on a send, and the tick has gone on to evaluate it.
C6_Witness ==
    \E i \in DOMAIN tick_log :
        /\ i > 1
        /\ tick_log[i].outcome # "send"
        /\ alerts[tick_log[i].alert].status = "Cancelled"

\* C7: a status changes only from Active: to Expired or Triggered in a step of
\* monitor_prices, to Cancelled in handle_alert_deletion.
C7_OnlyActiveChangesStatus ==
    [][ \A a \in DOMAIN alerts :
          alerts'[a].status # alerts[a].status
          => /\ alerts[a].status = "Active"
             /\ \/ MonitorStep /\ alerts'[a].status \in {"Expired", "Triggered"}
                \/ ~MonitorStep /\ alerts'[a].status = "Cancelled" ]_vars

\* an earlier evaluation of the running tick raised
RaisedEarlier == \E i \in DOMAIN tick_log : tick_log[i].outcome = "raised"

\* C8: after an evaluation of the tick has raised, the tick goes on with the
\* next alert, and a later alert of the list whose converted lowest price is
\* at or below its target is notified and Triggered.
C8_TickSurvivesException ==
    [][ /\ (EvalStep /\ NewEntry.outcome = "raised") =>
             (mpc' = "loop" /\ idx' = idx + 1 /\ active_alerts' = active_alerts)
        /\ (EvalStep /\ RaisedEarlier) =>
             LET e == NewEntry
                 a == e.alert
             IN  ( /\ ActiveUnexpired(a)
                   /\ e.outcome # "raised"
                   /\ e.seen # NULL
                   /\ e.seen <= alerts[a].target_price )
                 => (sent'[a] = sent[a] + 1 /\ mpc' = "sending")
        /\ (mpc = "sending" /\ mpc' # "sending" /\ RaisedEarlier
               /\ tick_log'[Len(tick_log')].outcome # "unwritten") =>
             /\ alerts'[sess.alert_id].status = "Triggered"
             /\ alerts'[sess.alert_id].triggered_at # NULL
      ]_vars

\* The part of C8 that does not rest on the price test: an evaluation that
\* raises moves the loop to the next alert of the same list, and a tick ends
\* only after every alert of its list was evaluated.
TickIsolation ==
    [][ /\ (EvalStep /\ NewEntry.outcome = "raised") =>
             (mpc' = "loop" /\ idx' = idx + 1 /\ active_alerts' = active_alerts)
        /\ (mpc = "loop" /\ mpc' = "sleep") => Len(tick_log) = Len(active_alerts)
      ]_vars

\* C16: while the feature flag is off, a tick returns at the flag test: it
\* runs no query, evaluates nothing, looks up no quote, sends nothing and
\* writes no alert; an alert past its expiry stays Active.  (Only the owner's
\* cancellation changes a status then.)
C16_DisabledTickIsNoOp ==
    [][ ~ENABLE_PRICE_ALERTS =>
          /\ mpc' = "sleep"
          /\ active_alerts' = <<>>
          /\ tick_log' = <<>>
          /\ sent' = sent
          /\ delivered' = delivered
          /\ skipped' # skipped => alerts' = alerts
          /\ \A a \in DOMAIN alerts :
                /\ alerts'[a].current_price = alerts[a].current_price
                /\ alerts'[a].triggered_at = alerts[a].triggered_at
                /\ alerts'[a].status \in {alerts[a].status, "Cancelled"}
      ]_vars

\* C16 witness: with the flag off a tick has run, and an alert whose expiry
\* has passed is still Active with no price.
C16_Witness ==
    /\ ~ENABLE_PRICE_ALERTS
    /\ skipped
    /\ \E a \in DOMAIN alerts :
          /\ alerts[a].status = "Active"
          /\ alerts[a].expires_at < now
          /\ alerts[a].current_price = NULL
          /\ sent[a] = 0

\* C20: the evaluation of an Active, unexpired alert for which the quote
\* source returns an empty list leaves the stored alert as it was and sends
\* nothing.
C20_NoQuotesNoChange ==
    [][ EvalStep =>
          LET e == NewEntry
              a == e.alert
          IN  (ActiveUnexpired(a) /\ e.returned = 0)
              => /\ alerts'[a] = alerts[a]
                 /\ sent' = sent
                 /\ delivered' = delivered
                 /\ mpc' = "loop"
                 /\ idx' = idx + 1
      ]_vars

\* C20 witness: an alert that carries a price from an earlier tick was
\* evaluated with an empty quote list and is Active with that price.
C20_Witness ==
    \E i \in DOMAIN tick_log :
        LET e == tick_log[i]
        IN  /\ e.returned = 0
            /\ e.outcome = "noquotes"
            /\ alerts[e.alert].status = "Active"
            /\ alerts[e.alert].current_price # NULL
            /\ alerts[e.alert].triggered_at = NULL
            /\ sent[e.alert] = 0

\* C21: a quote without a price field takes no part in the minimum and is
\* never stored: no alert's CurrentPrice is the infinity that stands for a
\* missing price, also when every quote of the list lacks its price.
C21_UnpricedNeverCurrentPrice ==
    \A a \in DOMAIN alerts : alerts[a].current_price # Inf

\* Triggered goes with a TriggeredAt, Active and Expired go without one
TriggeredAtConsistent ==
    \A a \in DOMAIN alerts :
        /\ alerts[a].status = "Triggered" => alerts[a].triggered_at # NULL
        /\ alerts[a].status \in {"Active", "Expired"} => alerts[a].triggered_at = NULL

\* the step in which send_price_alert comes back to monitor_prices
SendReturnStep == mpc = "sending" /\ mpc' # "sending"

\* C22: after every step a Triggered alert has TriggeredAt set and an
\* Active or Expired alert has TriggeredAt null; an alert becomes Triggered
\* only in the step that follows the call of the price-drop send for that
\* alert, in the evaluation that made the call.
C22_TriggeredAfterSend ==
    [][ /\ TriggeredAtConsistent'
        /\ \A a \in DOMAIN alerts :
             (alerts'[a].status = "Triggered" /\ alerts[a].status # "Triggered")
             => /\ SendReturnStep
                /\ sess.alert_id = a
                /\ sent[a] >= 1
                /\ tick_log[Len(tick_log)].alert = a
                /\ tick_log[Len(tick_log)].outcome = "send"
      ]_vars

\* C22 witness: one alert was sent and is Triggered with its TriggeredAt, next
\* to an alert that is Active or Expired with none.
C22_Witness ==
    \E a, b \in DOMAIN alerts :
        /\ alerts[a].status = "Triggered"
        /\ alerts[a].triggered_at # NULL
        /\ sent[a] = 1
        /\ alerts[b].status \in {"Active", "Expired"}
        /\ alerts[b].triggered_at = NULL

\* C23: an evaluation of an Active, unexpired alert in which the quote lookup
\* or the conversion raises leaves the alert's row as it was and sends
\* nothing; the next tick lists the alert again; and a later evaluation of
\* such an alert that computes a price at or below the target calls the send
\* and ends with the alert Triggered.
C23_RetriedAfterFailedLookup ==
    [][ /\ EvalStep =>
             LET e == NewEntry
                 a == e.alert
             IN  /\ (ActiveUnexpired(a) /\ e.outcome = "raised" /\ e.seen = NULL)
                       => /\ alerts'[a] = alerts[a]
                          /\ sent' = sent
                          /\ mpc' = "loop"
                          /\ a \in failed_lookup'
                 /\ ( /\ a \in failed_lookup
                      /\ ActiveUnexpired(a)
                      /\ e.outcome # "raised"
                      /\ e.seen # NULL
                      /\ e.seen <= alerts[a].target_price )
                       => (sent'[a] = sent[a] + 1 /\ mpc' = "sending")
        /\ (mpc = "sleep" /\ mpc' = "loop") =>
             \A a \in failed_lookup : \E i \in DOMAIN active_alerts' : active_alerts'[i] = a
        /\ ( /\ SendReturnStep
             /\ sess.alert_id \in failed_lookup
             /\ tick_log'[Len(tick_log')].outcome # "unwritten" ) =>
             /\ alerts'[sess.alert_id].status = "Triggered"
             /\ alerts'[sess.alert_id].triggered_at # NULL
      ]_vars

\* C26: when send_price_alert comes back without a delivery, the alert is
\* marked Triggered with TriggeredAt set all the same (the store write
\* succeeding); a Triggered alert is in no list a tick builds, is never
\* evaluated or sent again, gets no delivery, and is never Active again.
C26_FailedDeliveryStillTriggers ==
    [][ /\ ( /\ SendReturnStep
             /\ delivered' = delivered
             /\ tick_log'[Len(tick_log')].outcome # "unwritten" ) =>
             /\ alerts'[sess.alert_id].status = "Triggered"
             /\ alerts'[sess.alert_id].triggered_at # NULL
        /\ \A a \in DOMAIN alerts :
             alerts[a].status = "Triggered"
             => /\ alerts'[a].status # "Active"
                /\ sent'[a] = sent[a]
                /\ delivered'[a] = delivered[a]
                /\ EvalStep => NewEntry.alert # a
                /\ (mpc = "sleep" /\ mpc' = "loop") =>
                      \A i \in DOMAIN active_alerts' : active_alerts'[i] # a
      ]_vars

\* C26 witness: an alert was sent once, nothing was delivered, it is Triggered
\* with TriggeredAt set, and a later tick is running without it.
C26_Witness ==
    \E a \in term_seen :
        /\ alerts[a].status = "Triggered"
        /\ alerts[a].triggered_at # NULL
        /\ sent[a] = 1
        /\ delivered[a] = 0
        /\ mpc = "loop"
        /\ idx > 1

\* C27: at most one price-drop notification is sent for any one alert, also
\* over ticks in which the store write that follows the send fails.
C27_AtMostOneSend ==
    \A a \in DOMAIN alerts : sent[a] <= 1

\* C28: an alert with ExpiresAt set cannot stay Active through a tick that
\* starts after its ExpiresAt: the clock never goes back and ExpiresAt never
\* changes, a tick lists every alert that is Active when it starts, the
\* evaluation of an alert whose ExpiresAt has passed leaves it not Active
\* whatever the collaborators do, and a tick ends only after it has evaluated
\* every alert of its list, exceptions included.
C28_ExpiredLeavesActive ==
    [][ /\ now' >= now
        /\ \A a \in DOMAIN alerts : alerts'[a].expires_at = alerts[a].expires_at
        /\ (mpc = "sleep" /\ mpc' = "loop") =>
             \A a \in DOMAIN alerts :
                 alerts[a].status = "Active"
                 => \E i \in DOMAIN active_alerts' : active_alerts'[i] = a
        /\ EvalStep =>
             /\ NewEntry.alert = active_alerts[Len(tick_log')]
             /\ LET a == NewEntry.alert
                IN  (alerts[a].expires_at # NULL /\ alerts[a].expires_at < now)
                    => alerts'[a].status # "Active"
        /\ (mpc = "loop" /\ mpc' = "sleep") => Len(tick_log) = Len(active_alerts)
      ]_vars

\* C28 witness: in one tick an evaluation raised and the alert after it, past
\* its ExpiresAt, was made Expired.
C28_Witness ==
    \E i, j \in DOMAIN tick_log :
        /\ i < j
        /\ tick_log[i].outcome = "raised"
        /\ tick_log[j].outcome = "expired"
        /\ alerts[tick_log[j].alert].status = "Expired"
        /\ alerts[tick_log[j].alert].expires_at < now

\* --------------------------------------------------------- reminder engine
MinutesPerDay == HOURS_PER_DAY * MINUTES_PER_HOUR

\* users with a row in the users table
RegisteredUsers == {1}

\* the times of day at which the reminder loop may have been started
StartTimes == {0, 10 * MINUTES_PER_HOUR}

\* minutes from the booking to the departure: 22h59m, 23h, 24h, 25h, 25h01m
FlightOffsets ==
    {FLIGHT_WINDOW_MIN * MINUTES_PER_HOUR - 1, FLIGHT_WINDOW_MIN * MINUTES_PER_HOUR,
     HOURS_PER_DAY * MINUTES_PER_HOUR,
     FLIGHT_WINDOW_MAX * MINUTES_PER_HOUR, FLIGHT_WINDOW_MAX * MINUTES_PER_HOUR + 1}

\* booking_data['departure_time'] / booking_data['checkin_date'] as stored:
\*   missing    no such key
\*   malformed  a string the parser rejects
\*   naive      an ISO timestamp without UTC offset, t in minutes
\*   aware      an ISO timestamp ending in Z or an offset, t in minutes
\*   date       a YYYY-MM-DD calendar date, t the day number
Field(kind, t) == [kind |-> kind, t |-> t]

FlightFields(t0) ==
    {Field("missing", 0), Field("malformed", 0)}
    \cup {Field("naive", t0 + off) : off \in FlightOffsets}
    \cup {Field("aware", t0 + HOURS_PER_DAY * MINUTES_PER_HOUR)}

HotelFields(t0) ==
    {Field("missing", 0), Field("malformed", 0)}
    \cup {Field("date", (t0 \div MinutesPerDay) + d) : d \in 0..MaxDaysAhead}

\* datetime.fromisoformat(departure_str.replace('Z', '+00:00')), line 43
\* ok = FALSE: ValueError
ParseDeparture(f) ==
    [ok |-> f.kind \in {"naive", "aware"}, aware |-> f.kind = "aware", t |-> f.t]

\* (departure_time - datetime.now()).total_seconds() / 3600 within 23..25,
\* lines 44-47, on minutes; subtracting a naive from an aware datetime
\* raises TypeError (ok = FALSE)
FlightInWindow(dep, t) ==
    LET minutes == dep.t - t
    IN  /\ FLIGHT_WINDOW_MIN * MINUTES_PER_HOUR <= minutes
        /\ minutes <= FLIGHT_WINDOW_MAX * MINUTES_PER_HOUR

FlightDecision(f, t) ==
    IF f.kind = "missing" THEN "no_field"
    ELSE LET dep == ParseDeparture(f)
         IN  IF ~dep.ok THEN "parse_error"
             ELSE IF dep.aware THEN "parse_error"
             ELSE IF FlightInWindow(dep, t) THEN "remind" ELSE "outside"

\* datetime.strptime(checkin_str, "%Y-%m-%d"), line 67: midnight of the day,
\* in minutes; ok = FALSE: ValueError
ParseCheckin(f) == [ok |-> f.kind = "date", t |-> f.t * MinutesPerDay]

\* (checkin_date - datetime.now()).days, line 68: timedelta.days is the floor
DaysUntilCheckin(checkin, t) == (checkin.t - t) \div MinutesPerDay

HotelDecision(f, t) ==
    IF f.kind = "missing" THEN "no_field"
    ELSE LET checkin == ParseCheckin(f)
         IN  IF ~checkin.ok THEN "parse_error"
             ELSE IF DaysUntilCheckin(checkin, t) = HOTEL_DAYS_BEFORE
                  THEN "remind" ELSE "outside"

\* lines 30-81 for one booking: what the loop body decides
Decision(row, t) ==
    IF row.user_id \notin RegisteredUsers THEN "no_user"
    ELSE IF row.type = "Flight" THEN FlightDecision(row.data, t)
    ELSE IF row.type = "Hotel" THEN HotelDecision(row.data, t)
    ELSE "no_rule"

\* mutant: the query has no payment filter
CompletedIds_all(table) == DOMAIN table

\* db.query(Booking).filter(Booking.payment_status == PaymentStatus.COMPLETED).all()
CompletedIds(table) == {b \in DOMAIN table : table[b].payment_status = "Completed"}

RemEntry(b, outcome, t) == [booking |-> b, outcome |-> outcome, at |-> t]

RemInit ==
    /\ rnow \in StartTimes
    /\ bookings = <<>>
    /\ rpc = "sleep"
    /\ rlist = <<>>
    /\ ridx = 1
    /\ rticks = 0
    /\ reminded = [b \in 1..MaxBookings |-> 0]
    /\ rem_log = <<>>

RemSuspended == rpc \in {"sleep", "sending"}

\* handle_flight_booking lines 325-337 / handle_hotel_booking lines 305-317:
\* the booking is stored Pending
CreateBooking(user_id, type, data) ==
    /\ RemSuspended
    /\ Len(bookings) < MaxBookings
    /\ bookings' = Append(bookings, [user_id |-> user_id, type |-> type,
                                     data |-> data, payment_status |-> "Pending"])
    /\ UNCHANGED <<rnow, rpc, rlist, ridx, rticks, reminded, rem_log, alertVars, loopVars, fxVars, apiVars, handlerVars>>

\* handle_flight_booking lines 344-345 / handle_hotel_booking lines 323-324
ConfirmPayment(b) ==
    /\ RemSuspended
    /\ b \in DOMAIN bookings
    /\ bookings[b].payment_status = "Pending"
    /\ bookings' = [bookings EXCEPT ![b].payment_status = "Completed"]
    /\ UNCHANGED <<rnow, rpc, rlist, ridx, rticks, reminded, rem_log, alertVars, loopVars, fxVars, apiVars, handlerVars>>

\* send_reminders, lines 19-26
RemStart ==
    /\ rpc = "sleep"
    /\ rticks < MaxRemTicks
    /\ \E order \in Orders(CompletedIds(bookings)) : rlist' = order
    /\ ridx' = 1
    /\ rpc' = "loop"
    /\ rticks' = rticks + 1
    /\ rem_log' = <<>>
    /\ UNCHANGED <<rnow, bookings, reminded, alertVars, loopVars, fxVars, apiVars, handlerVars>>

\* send_reminders, lines 28-85 for the booking at ridx, up to the await of the
\* reminder send
RemEval ==
    /\ rpc = "loop"
    /\ ridx <= Len(rlist)
    /\ LET b == rlist[ridx]
           d == Decision(bookings[b], rnow)
       IN  IF d = "remind"
           THEN /\ reminded' = [reminded EXCEPT ![b] = @ + 1]
                /\ rpc' = "sending"
                /\ UNCHANGED <<ridx, rem_log>>
           ELSE /\ rem_log' = Append(rem_log, RemEntry(b, d, rnow))
                /\ ridx' = ridx + 1
                /\ UNCHANGED <<rpc, reminded>>
    /\ UNCHANGED <<rnow, bookings, rlist, rticks, alertVars, loopVars, fxVars, apiVars, handlerVars>>

\* send_flight_reminder / send_hotel_reminder return (lines 48-55, 72-78)
RemSendReturn ==
    /\ rpc = "sending"
    /\ rem_log' = Append(rem_log, RemEntry(rlist[ridx], "reminded", rnow))
    /\ ridx' = ridx + 1
    /\ rpc' = "loop"
    /\ UNCHANGED <<rnow, bookings, rlist, rticks, reminded, alertVars, loopVars, fxVars, apiVars, handlerVars>>

\* send_reminders lines 90-91, then asyncio.sleep(3600) of run_reminders_loop
RemTickEnd ==
    /\ rpc = "loop"
    /\ ridx > Len(rlist)
    /\ rpc' = "sleep"
    /\ rnow' = rnow + REMINDER_SLEEP
    /\ UNCHANGED <<bookings, rlist, ridx, rticks, reminded, rem_log, alertVars, loopVars, fxVars, apiVars, handlerVars>>

RemNext ==
    \/ \E u \in UserIds : \E f \in FlightFields(rnow) : CreateBooking(u, "Flight", f)
    \/ \E u \in UserIds : \E f \in HotelFields(rnow) : CreateBooking(u, "Hotel", f)
    \/ \E b \in 1..MaxBookings : ConfirmPayment(b)
    \/ RemStart
    \/ RemEval
    \/ RemSendReturn
    \/ RemTickEnd

\* ---------------------------------------------- properties, reminder engine
\* the step of send_reminders that evaluates the booking at ridx
RemEvalStep == rpc = "loop" /\ (rpc' = "sending" \/ ridx' = ridx + 1)

\* C9: the evaluation of a Completed flight booking with a registered owner
\* and a stored departure timestamp sends a reminder exactly when the
\* departure lies 23 to 25 hours after now, bounds included.
C9_FlightReminderWindow ==
    [][ RemEvalStep =>
          LET b == rlist[ridx]
              row == bookings[b]
          IN  ( /\ row.type = "Flight"
                /\ row.payment_status = "Completed"
                /\ row.user_id \in RegisteredUsers
                /\ row.data.kind \in {"naive", "aware"} )
              => ( reminded'[b] = reminded[b] + 1
                   <=> (23 * 60 <= row.data.t - rnow /\ row.data.t - rnow <= 25 * 60) )
      ]_vars

\* C10: the evaluation of a Completed hotel booking with a registered owner
\* and a stored check-in date sends a reminder exactly when that date is the
\* day after today's date, at whatever time of day the tick runs.
C10_HotelReminderTomorrow ==
    [][ RemEvalStep =>
          LET b == rlist[ridx]
              row == bookings[b]
          IN  ( /\ row.type = "Hotel"
                /\ row.payment_status = "Completed"
                /\ row.user_id \in RegisteredUsers
                /\ row.data.kind = "date" )
              => ( reminded'[b] = reminded[b] + 1
                   <=> row.data.t = (rnow \div (24 * 60)) + 1 )
      ]_vars

\* C11: over the hourly ticks of the reminder loop a booking is reminded once
\* in total: after a tick has sent its reminder, no later tick sends it again,
\* so the count of reminder sends of a booking never exceeds one.
C11_ExactlyOneReminder ==
    \A b \in DOMAIN bookings : reminded[b] <= 1

\* C18: the bookings a tick lists are Completed when it starts, and a reminder
\* is sent only for a listed booking; a booking that is Pending between its
\* creation and its payment confirmation is never reminded.
C18_OnlyCompletedReminded ==
    [][ /\ \A i \in DOMAIN rlist' : bookings'[rlist'[i]].payment_status = "Completed"
        /\ \A b \in 1..MaxBookings :
               reminded'[b] # reminded[b]
               => /\ b \in Range(rlist)
                  /\ bookings[b].payment_status = "Completed"
      ]_vars

\* C18 witness: a tick has run to its end and reminded a Completed booking
\* while a Pending booking whose travel time is inside its window was stored;
\* the Pending one got nothing.
C18_Witness ==
    /\ rpc = "loop"
    /\ ridx > Len(rlist)
    /\ \E i \in DOMAIN rem_log : rem_log[i].outcome = "reminded"
    /\ \E b \in DOMAIN bookings :
          /\ bookings[b].payment_status = "Pending"
          /\ Decision(bookings[b], rnow) = "remind"
          /\ reminded[b] = 0

\* the stored travel time of the booking is missing or cannot be parsed
BadField(row) == row.data.kind \in {"missing", "malformed"}

\* the booking is in its reminder window at time t: a flight leaves 23 to 25
\* hours after t, a hotel check-in is on the day after t
InWindow(row, t) ==
    IF row.type = "Flight"
    THEN /\ row.data.kind \in {"naive", "aware"}
         /\ 23 * 60 <= row.data.t - t
         /\ row.data.t - t <= 25 * 60
    ELSE /\ row.data.kind = "date"
         /\ row.data.t = (t \div (24 * 60)) + 1

\* an earlier evaluation of the running tick met a booking with a bad field
BadFieldEarlier == \E i \in DOMAIN rem_log : BadField(bookings[rem_log[i].booking])

\* The part of C24 that does not rest on the window tests: a booking with a
\* missing or unparsable travel time gets no reminder, the loop moves to the
\* next booking of the same list, and a tick ends only after every booking
\* of its list was evaluated.
ReminderIsolation ==
    [][ /\ (RemEvalStep /\ BadField(bookings[rlist[ridx]])) =>
             /\ reminded' = reminded
             /\ rpc' = "loop"
             /\ ridx' = ridx + 1
             /\ rlist' = rlist
        /\ (rpc = "loop" /\ rpc' = "sleep") => Len(rem_log) = Len(rlist)
      ]_vars

\* C24: within one tick a booking whose departure timestamp or check-in date
\* is missing or cannot be parsed gets no reminder and does not end the tick:
\* the loop goes on, every booking of the list is evaluated before the tick
\* ends, and a booking that follows it, has a registered owner and is in its
\* window is reminded.
C24_BadFieldIsolated ==
    [][ /\ (RemEvalStep /\ BadField(bookings[rlist[ridx]])) =>
             /\ reminded' = reminded
             /\ rpc' = "loop"
             /\ ridx' = ridx + 1
             /\ rlist' = rlist
        /\ (rpc = "loop" /\ rpc' = "sleep") => Len(rem_log) = Len(rlist)
        /\ (RemEvalStep /\ BadFieldEarlier) =>
             LET b == rlist[ridx]
                 row == bookings[b]
             IN  (row.user_id \in RegisteredUsers /\ InWindow(row, rnow))
                 => reminded'[b] = reminded[b] + 1
      ]_vars

\* ------------------------------------------------------- the two loops
\* run_price_monitor_loop and run_reminders_loop, the tasks post_init creates
Loops == {"price_monitor", "reminders"}

\* the sleep after a tick that returned: line 122 / line 102
Interval(l) == IF l = "price_monitor" THEN PRICE_CHECK_INTERVAL ELSE REMINDER_SLEEP

\* What may fail in a tick outside the evaluation of its rows:
\*   session  SessionLocal() raises, before the try of the evaluator
\*   query    the query of the Active alerts / Completed bookings raises
\*   close    db.close() in the finally clause raises
TickFaults == {"none", "session", "query", "close"}

\* The evaluator's `except Exception` (line 107 / line 87) covers its try
\* block only: an exception of the session factory or of the finally clause
\* leaves the evaluator.
Escapes(fault) == fault \in {"session", "close"}

\* mutant: the loop lets the exception through and its task ends
OnLoopError_reraise == [pc |-> "dead", timer |-> 0]

\* `except Exception` of the loop: log, asyncio.sleep(60), next round
OnLoopError == [pc |-> "sleep", timer |-> ERROR_BACKOFF]

\* the evaluator returned: asyncio.sleep(interval), next round
OnReturn(l) == [pc |-> "sleep", timer |-> Interval(l)]

\* where the loop is after a tick in which `fault` happened
AfterTick(l, fault) == IF Escapes(fault) THEN OnLoopError ELSE OnReturn(l)

\* mutant: the loop does not wait for the end of its sleep
SleepOver_early(t) == TRUE

\* `await asyncio.sleep(...)` has returned
SleepOver(t) == t = 0

\* What may fail inside a send_* method of NotificationService:
\*   no_bot    self.bot is not set
\*   template  get_text raises
\*   channel   bot.send_message raises
SendFaults == {"none", "no_bot", "template", "channel"}

\* mutant: the send_* method has no try/except
Dispatch_unguarded(fault) ==
    [raised |-> fault \in {"template", "channel"}, delivered |-> fault = "none"]

\* send_price_alert / send_flight_reminder / send_hotel_reminder: the early
\* return without a bot, and try/except Exception around template and send
Dispatch(fault) == [raised |-> FALSE, delivered |-> fault = "none"]

\* how the evaluation of a row ends once its send has come back
AfterSend(r) == IF r.raised THEN "raised" ELSE IF r.delivered THEN "sent" ELSE "unsent"

\* A coroutine lets the others run only at an await: in its sleep or while
\* the channel send is in flight.  (A task that has ended holds nothing.)
Suspended(l) == lpc[l] \in {"sleep", "sending", "dead"}

ThreadFreeFor(l) == \A o \in Loops \ {l} : Suspended(o)

Min(S) == CHOOSE m \in S : \A x \in S : m <= x

LoopInit ==
    /\ lpc = [l \in Loops |-> "sleep"]
    /\ timer = [l \in Loops |-> 0]
    /\ todo = [l \in Loops |-> 0]
    /\ item_log = [l \in Loops |-> <<>>]
    /\ tick_error = [l \in Loops |-> "none"]
    /\ late = [l \in Loops |-> FALSE]

\* the loop is about to call its evaluator
LoopDue(l) ==
    /\ lpc[l] = "sleep"
    /\ SleepOver(timer[l])
    /\ ThreadFreeFor(l)

\* monitor_prices with the feature flag off: lines 21-23, then the sleep
LoopTickSkipped ==
    LET l == "price_monitor"
    IN  /\ LoopDue(l)
        /\ ~TickEnabled(ENABLE_PRICE_ALERTS)
        /\ lpc' = [lpc EXCEPT ![l] = OnReturn(l).pc]
        /\ timer' = [timer EXCEPT ![l] = OnReturn(l).timer]
        /\ tick_error' = [tick_error EXCEPT ![l] = "none"]
        /\ late' = [late EXCEPT ![l] = FALSE]
        /\ UNCHANGED <<todo, item_log, alertVars, remVars, fxVars, apiVars, handlerVars>>

\* the evaluator opens its session and runs its query (lines 25-32 / 19-26);
\* n rows come back
LoopTickStart(l) ==
    /\ LoopDue(l)
    /\ l = "price_monitor" => TickEnabled(ENABLE_PRICE_ALERTS)
    /\ \E n \in 0..MaxItems : todo' = [todo EXCEPT ![l] = n]
    /\ lpc' = [lpc EXCEPT ![l] = "items"]
    /\ timer' = [timer EXCEPT ![l] = 0]
    /\ item_log' = [item_log EXCEPT ![l] = <<>>]
    /\ late' = [late EXCEPT ![l] = FALSE]
    /\ UNCHANGED <<tick_error, alertVars, remVars, fxVars, apiVars, handlerVars>>

\* the session factory or the query raises: the tick is over before its first
\* row, and the loop sleeps
LoopTickFails(l, fault) ==
    /\ LoopDue(l)
    /\ l = "price_monitor" => TickEnabled(ENABLE_PRICE_ALERTS)
    /\ fault \in {"session", "query"}
    /\ lpc' = [lpc EXCEPT ![l] = AfterTick(l, fault).pc]
    /\ timer' = [timer EXCEPT ![l] = AfterTick(l, fault).timer]
    /\ tick_error' = [tick_error EXCEPT ![l] = fault]
    /\ item_log' = [item_log EXCEPT ![l] = <<>>]
    /\ late' = [late EXCEPT ![l] = FALSE]
    /\ UNCHANGED <<todo, alertVars, remVars, fxVars, apiVars, handlerVars>>

\* the body of the for loop for the next row, up to its end, its `continue`,
\* the per-row `except Exception` (lines 103-105 / 83-85) or the await of a send
LoopEvalItem(l) ==
    /\ lpc[l] = "items"
    /\ todo[l] > 0
    /\ \E outcome \in {"skipped", "raised", "send"} :
          IF outcome = "send"
          THEN /\ lpc' = [lpc EXCEPT ![l] = "sending"]
               /\ UNCHANGED <<todo, item_log>>
          ELSE /\ item_log' = [item_log EXCEPT ![l] = Append(@, outcome)]
               /\ todo' = [todo EXCEPT ![l] = @ - 1]
               /\ UNCHANGED lpc
    /\ UNCHANGED <<timer, tick_error, late, alertVars, remVars, fxVars, apiVars, handlerVars>>

\* A call inside the body that is not awaited (the store, requests.get of the
\* quote source and of the rate provider) takes d minutes: the event loop runs
\* nothing else meanwhile, and the sleep of the other loop may run out.
LoopStall(l, d) ==
    /\ lpc[l] = "items"
    /\ todo[l] > 0
    /\ timer' = [o \in Loops |->
                    IF o # l /\ lpc[o] = "sleep"
                    THEN (IF timer[o] > d THEN timer[o] - d ELSE 0)
                    ELSE timer[o]]
    /\ late' = [o \in Loops |->
                    IF o # l /\ lpc[o] = "sleep" THEN late[o] \/ d > timer[o]
                    ELSE late[o]]
    /\ UNCHANGED <<lpc, todo, item_log, tick_error, alertVars, remVars, fxVars, apiVars, handlerVars>>

\* the awaited send_* call comes back and the body runs to its end
LoopSendReturn(l) ==
    /\ lpc[l] = "sending"
    /\ ThreadFreeFor(l)
    /\ \E fault \in SendFaults :
          item_log' = [item_log EXCEPT ![l] = Append(@, AfterSend(Dispatch(fault)))]
    /\ todo' = [todo EXCEPT ![l] = @ - 1]
    /\ lpc' = [lpc EXCEPT ![l] = "items"]
    /\ UNCHANGED <<timer, tick_error, late, alertVars, remVars, fxVars, apiVars, handlerVars>>

\* the for loop is through: finally db.close() (lines 110-111 / 90-91), then
\* the sleep of the loop
LoopTickEnd(l, fault) ==
    /\ lpc[l] = "items"
    /\ todo[l] = 0
    /\ fault \in {"none", "close"}
    /\ lpc' = [lpc EXCEPT ![l] = AfterTick(l, fault).pc]
    /\ timer' = [timer EXCEPT ![l] = AfterTick(l, fault).timer]
    /\ tick_error' = [tick_error EXCEPT ![l] = fault]
    /\ item_log' = [item_log EXCEPT ![l] = <<>>]
    /\ UNCHANGED <<todo, late, alertVars, remVars, fxVars, apiVars, handlerVars>>

\* Every task waits: the clock runs to the end of the nearest sleep.  A loop
\* whose sleep is over runs before any time passes.
LoopTimePasses ==
    LET sleeping == {l \in Loops : lpc[l] = "sleep"}
    IN  /\ \A l \in Loops : Suspended(l)
        /\ sleeping # {}
        /\ \A l \in sleeping : timer[l] > 0
        /\ LET d == Min({timer[l] : l \in sleeping})
           IN  timer' = [l \in Loops |-> IF l \in sleeping THEN timer[l] - d ELSE timer[l]]
        /\ UNCHANGED <<lpc, todo, item_log, tick_error, late, alertVars, remVars, fxVars, apiVars, handlerVars>>

LoopNext ==
    \/ LoopTickSkipped
    \/ \E l \in Loops : LoopTickStart(l)
    \/ \E l \in Loops, f \in TickFaults : LoopTickFails(l, f)
    \/ \E l \in Loops : LoopEvalItem(l)
    \/ \E l \in Loops, d \in 1..MaxStall : LoopStall(l, d)
    \/ \E l \in Loops : LoopSendReturn(l)
    \/ \E l \in Loops, f \in TickFaults : LoopTickEnd(l, f)
    \/ LoopTimePasses

LoopFairness ==
    /\ WF_vars(LoopTickSkipped)
    /\ WF_vars(LoopTimePasses)
    /\ \A l \in Loops :
          /\ WF_vars(LoopTickStart(l) \/ \E f \in TickFaults : LoopTickFails(l, f))
          /\ WF_vars(LoopEvalItem(l))
          /\ SF_vars(LoopSendReturn(l))
          /\ WF_vars(\E f \in TickFaults : LoopTickEnd(l, f))

\* ---------------------------------------------------- properties, loops
\* the step in which loop l calls its evaluator
Starts(l) == lpc[l] = "sleep" /\ (lpc'[l] # "sleep" \/ timer'[l] > timer[l])

\* the step in which loop l goes to sleep
SleepBegins(l) == lpc'[l] = "sleep" /\ (lpc[l] # "sleep" \/ timer'[l] > timer[l])

\* a step taken by loop l, or with loop l holding the event loop
Acts(l) == lpc[l] = "items" \/ lpc'[l] # lpc[l] \/ timer'[l] > timer[l]

\* C12: whatever raises in a tick -- the session, the query, the evaluation of
\* a row, a send, the close --, each of the two loops calls its evaluator again
\* and again, without end.
C12_LoopsRunForever ==
    \A l \in Loops : []<><<Starts(l)>>_vars

\* C12 witness: each loop is inside a tick that follows a tick of its own in
\* which an exception left the evaluator.
C12_Witness ==
    \A l \in Loops :
        /\ lpc[l] \in {"items", "sending"}
        /\ Escapes(tick_error[l])

\* C13: a tick that failed outside its rows (session, query or close) is
\* followed by the short sleep of 60 seconds, not by the full interval.
C13_TickErrorBacksOff ==
    [][ \A l \in Loops :
          (SleepBegins(l) /\ tick_error'[l] # "none")
          => (timer'[l] = ERROR_BACKOFF /\ timer'[l] < Interval(l)) ]_vars

\* C14: while one loop runs, fails or is held up in a call, the other loop is
\* where it was, with its list, its log and its last error unchanged, and its
\* due tick is not kept waiting.
C14_LoopsIndependent ==
    [][ \A l \in Loops : \A o \in Loops \ {l} :
          Acts(l) => /\ lpc'[o] = lpc[o]
                     /\ todo'[o] = todo[o]
                     /\ item_log'[o] = item_log[o]
                     /\ tick_error'[o] = tick_error[o]
                     /\ ~late'[o] ]_vars

\* C15: a loop calls its evaluator only from its sleep and only when that
\* sleep is over; while a tick is in progress the loop is not sleeping, so a
\* second tick of the same loop cannot begin.
C15_TicksDoNotOverlap ==
    [][ \A l \in Loops :
          /\ Starts(l) => (timer[l] = 0 /\ todo[l] = 0)
          /\ lpc'[l] \in {"items", "sending"} => timer'[l] = 0 ]_vars

\* C15 witness: a loop is inside a tick that follows a failed tick of its own
\* and the backoff sleep, while the other loop sleeps between two ticks.
C15_Witness ==
    \E l \in Loops : \E o \in Loops \ {l} :
        /\ lpc[l] = "items"
        /\ tick_error[l] = "close"
        /\ todo[l] > 0
        /\ lpc[o] = "sleep"
        /\ timer[o] > 0

\* C17: whatever fails inside a send_* method, the call comes back: the body
\* of the row runs to its end, the loop goes on with the next row, and a tick
\* goes to sleep only when every row of its list was evaluated.
C17_SendNeverRaises ==
    [][ \A l \in Loops :
          /\ (lpc[l] = "sending" /\ lpc'[l] # "sending")
             => /\ lpc'[l] = "items"
                /\ todo'[l] = todo[l] - 1
                /\ Len(item_log'[l]) = Len(item_log[l]) + 1
                /\ item_log'[l][Len(item_log'[l])] \in {"sent", "unsent"}
          /\ (lpc[l] = "items" /\ lpc'[l] = "sleep") => todo[l] = 0 ]_vars

\* C17 witness: in a tick a send has failed inside the dispatcher and a later
\* row of the same tick has been evaluated.
C17_Witness ==
    \E l \in Loops : \E i \in DOMAIN item_log[l] :
        /\ item_log[l][i] = "unsent"
        /\ i < Len(item_log[l])

\* ------------------------------------------------------- currency.py
\* amounts handed to convert_usd_to_etb, in cents
Amounts == {1} \cup {100 * d : d \in 1..MaxAmountUsd}

\* rates the provider may quote, in tenths
ProviderRates == {USD_TO_ETB_RATE_X10 + 10 * k : k \in 1..MaxRateSteps}

\* What the request of get_usd_to_etb_rate (lines 36-42) may meet:
\*   unavailable  requests.get raises (connection error, timeout)
\*   http_error   raise_for_status raises
\*   no_rates     a JSON object without the key 'rates'
\*   no_etb       'rates' is an object without the key 'ETB'
\*   null_rates   'rates' is null
\*   null_body    the body is the JSON value null
\*   rate         'rates' holds an ETB rate
Response(kind, rate) == [kind |-> kind, rate |-> rate]

Responses ==
    {Response(k, NULL) : k \in {"unavailable", "http_error", "no_rates", "no_etb",
                                "null_rates", "null_body"}}
    \cup {Response("rate", r) : r \in ProviderRates}

\* the answers in which the provider is unavailable or gives no ETB rate
WithoutRate == {"unavailable", "http_error", "no_rates", "no_etb", "null_rates", "null_body"}

\* `'rates' in data and 'ETB' in data['rates']` (line 44) on a value that is
\* not a container raises TypeError, which `except requests.RequestException`
\* does not catch
RaisesTypeError(resp) == resp.kind \in {"null_rates", "null_body"}

\* CurrencyConverter.get_usd_to_etb_rate, lines 23-59
GetUsdToEtbRate(cache, fresh, resp) ==
    IF fresh
    THEN [raised |-> FALSE, asked |-> FALSE, cache |-> cache,
          rate |-> IF cache # NULL THEN cache ELSE USD_TO_ETB_RATE_X10]
    ELSE IF resp.kind = "rate"
    THEN [raised |-> FALSE, asked |-> TRUE, cache |-> resp.rate, rate |-> resp.rate]
    ELSE IF RaisesTypeError(resp)
    THEN [raised |-> TRUE, asked |-> TRUE, cache |-> cache, rate |-> NULL]
    ELSE [raised |-> FALSE, asked |-> TRUE, cache |-> cache, rate |-> USD_TO_ETB_RATE_X10]

NoCall ==
    [amount |-> 0, kind |-> "", asked |-> FALSE, raised |-> FALSE, rate |-> NULL,
     etb |-> NULL]

FxInit ==
    /\ fx_cache = NULL
    /\ fx_fresh = FALSE
    /\ fx_call = NoCall
    /\ fx_last = NULL

\* CurrencyConverter.convert_usd_to_etb, lines 61-73
Convert(amount, resp) ==
    LET g == GetUsdToEtbRate(fx_cache, fx_fresh, resp)
    IN  /\ fx_call' = [amount |-> amount, kind |-> resp.kind, asked |-> g.asked,
                       raised |-> g.raised, rate |-> g.rate,
                       etb |-> IF g.raised THEN NULL ELSE ConvertUsdToEtb(amount, g.rate)]
        /\ fx_cache' = g.cache
        /\ fx_fresh' = (fx_fresh \/ (g.asked /\ resp.kind = "rate"))
        /\ fx_last' = IF g.asked /\ resp.kind = "rate" THEN resp.rate ELSE fx_last
        /\ UNCHANGED <<alertVars, remVars, loopVars, apiVars, handlerVars>>

\* six hours have passed since the rate was cached: _is_cache_valid is false
CacheExpires ==
    /\ fx_fresh
    /\ fx_fresh' = FALSE
    /\ UNCHANGED <<fx_cache, fx_call, fx_last, alertVars, remVars, loopVars, apiVars, handlerVars>>

FxNext ==
    \/ \E a \in Amounts, resp \in Responses : Convert(a, resp)
    \/ CacheExpires

\* C19: when the provider was asked and was unavailable or gave an answer
\* without an ETB rate, convert_usd_to_etb does not raise and returns the
\* amount times the configured fallback rate, a positive value.
C19_FallbackWhenNoRate ==
    (fx_call.asked /\ fx_call.kind \in WithoutRate)
    => /\ ~fx_call.raised
       /\ fx_call.etb = ConvertUsdToEtb(fx_call.amount, USD_TO_ETB_RATE_X10)
       /\ fx_call.etb > 0

\* a step in which get_usd_to_etb_rate is called (the cache does not age in it)
RateLookupStep == ~(fx_fresh /\ ~fx_fresh')

\* The part of C30 about the cache: a lookup that returns gives the fallback
\* rate or the rate of the most recent successful fetch; it answers from the
\* cache only while the cache is younger than six hours; a fetch that gives
\* no rate leaves the cache and its age as they were.
FxCacheDiscipline ==
    [][ RateLookupStep =>
          LET c == fx_call'
          IN  /\ ~c.raised => c.rate \in {USD_TO_ETB_RATE_X10, fx_last'}
              /\ ~c.asked => (fx_fresh /\ c.rate = fx_last)
              /\ (c.asked /\ c.kind \in WithoutRate) =>
                    (fx_cache' = fx_cache /\ fx_fresh' = fx_fresh /\ fx_last' = fx_last)
      ]_vars

\* C30: every rate lookup returns the fallback rate or the rate of the most
\* recent successful fetch; it returns the fetched rate without asking the
\* provider only while that fetch is less than six hours old; a failed fetch
\* leaves the cached rate and its age unchanged and yields the fallback
\* rate, also when an older rate is still in the cache.
C30_RateIsFallbackOrLatest ==
    [][ RateLookupStep =>
          LET c == fx_call'
          IN  /\ ~c.raised
              /\ c.rate \in {USD_TO_ETB_RATE_X10, fx_last'}
              /\ ~c.asked => (fx_fresh /\ c.rate = fx_last)
              /\ (c.asked /\ c.kind \in WithoutRate) =>
                    /\ fx_cache' = fx_cache
                    /\ fx_fresh' = fx_fresh
                    /\ c.rate = USD_TO_ETB_RATE_X10
      ]_vars

\* ------------------------------------------------------- trip_api.py
\* `not self.api_key or self.api_key == 'test' or self.api_key == 'test_key'`
TestKeys == {"", "test", "test_key"}

ApiKeys == TestKeys \cup {"live"}

MockMode(key) == key \in TestKeys

SearchKinds == {"flights", "hotels"}

\* How a request of _make_request (lines 62-73) may end:
\*   data         a JSON object with the results
\*   error_body   a JSON object that has the key 'error'
\*   http_error   raise_for_status raises
\*   unreachable  the session raises (connection error, timeout)
\* The two exceptions are caught and turned into {"error": ..., "success": False}.
RequestOutcomes == {"data", "error_body", "http_error", "unreachable"}

\* `'error' in response`, lines 156 and 250
HasError(outcome) == outcome # "data"

\* TripAPI.__init__, lines 18-22, with the key one of keys
ApiInit(keys) ==
    /\ api_key \in keys
    /\ api_pc = "idle"
    /\ api_kind = ""
    /\ frames = 0
    /\ api_log = <<>>
    /\ api_result = "none"

\* a caller calls search_flights or search_hotels
SearchCall(kind) ==
    /\ api_pc \in {"idle", "done"}
    /\ api_kind' = kind
    /\ frames' = 1
    /\ api_log' = <<>>
    /\ api_result' = "none"
    /\ api_pc' = "entered"
    /\ UNCHANGED <<api_key, alertVars, remVars, loopVars, fxVars, handlerVars>>

\* the key test at the top of the function, lines 96-140 / 185-238: the mock
\* list is returned, through every frame of the call, in test mode only
SearchEnter ==
    /\ api_pc = "entered"
    /\ IF MockMode(api_key)
       THEN /\ api_result' = "mock"
            /\ api_pc' = "done"
            /\ frames' = 0
       ELSE /\ api_pc' = "requesting"
            /\ UNCHANGED <<api_result, frames>>
    /\ UNCHANGED <<api_key, api_kind, api_log, alertVars, remVars, loopVars, fxVars,
                   handlerVars>>

\* lines 152-162 / 248-255: the request comes back; on an error the function
\* calls itself with the arguments it was called with, and the interpreter
\* raises RecursionError when the stack is full
RequestReturns(outcome) ==
    /\ api_pc = "requesting"
    /\ api_log' = Append(api_log, outcome)
    /\ IF ~HasError(outcome)
       THEN /\ api_result' = "provider"
            /\ api_pc' = "done"
            /\ frames' = 0
       ELSE IF frames < MaxFrames
       THEN /\ frames' = frames + 1
            /\ api_pc' = "entered"
            /\ UNCHANGED api_result
       ELSE /\ api_result' = "RecursionError"
            /\ api_pc' = "done"
            /\ frames' = 0
    /\ UNCHANGED <<api_key, api_kind, alertVars, remVars, loopVars, fxVars, handlerVars>>

ApiNext ==
    \/ \E kind \in SearchKinds : SearchCall(kind)
    \/ SearchEnter
    \/ \E outcome \in RequestOutcomes : RequestReturns(outcome)

\* the step in which a provider request of the call comes back failed
FailedRequestStep ==
    /\ api_pc = "requesting"
    /\ Len(api_log') = Len(api_log) + 1
    /\ HasError(api_log'[Len(api_log')])

\* C25: with a real key, a search whose provider request fails ends there
\* with the mock result list: it makes no further request, however often the
\* provider would fail.
C25_SearchFallsBackToMock ==
    [][ FailedRequestStep =>
          /\ api_pc' = "done"
          /\ api_result' = "mock"
          /\ Len(api_log') = 1
      ]_vars

\* C29: handle_alert_deletion changes an alert only on the request of its
\* owner: a request that names an alert of another user, or an id that is
\* not stored, leaves every alert as it was and is answered not found.
C29_OnlyOwnerDeletes ==
    [][ (Len(alerts') = Len(alerts) /\ now' = now) =>
          LET q == del_req'
          IN  /\ (q.alert_id \notin DOMAIN alerts \/ alerts[q.alert_id].user_id # q.user_id)
                    => (alerts' = alerts /\ q.reply = "not_found")
              /\ \A a \in DOMAIN alerts :
                    alerts'[a] # alerts[a]
                    => /\ q.alert_id = a
                       /\ q.user_id = alerts[a].user_id
                       /\ q.reply = "deleted"
      ]_vars

\* C29 witness: the owner of one alert has cancelled it, and the last request
\* named the alert of another user: it was answered not found and that alert
\* is still Active.
C29_Witness ==
    /\ del_req.reply = "not_found"
    /\ del_req.alert_id \in DOMAIN alerts
    /\ alerts[del_req.alert_id].user_id # del_req.user_id
    /\ alerts[del_req.alert_id].status = "Active"
    /\ \E b \in DOMAIN alerts : alerts[b].status = "Cancelled"

\* --------------------------------------------------------- specifications
\* the price-alert engine
\* the provider key as the default of settings.TRIP_COM_API_KEY leaves it
DefaultKey == ""

Init ==
    /\ AlertInit /\ RemInit /\ rnow = 0 /\ LoopInit /\ FxInit
    /\ ApiInit({DefaultKey}) /\ HandlerInit

Next == AlertNext

Spec == Init /\ [][Next]_vars

\* the reminder engine
RemindersInit ==
    /\ AlertInit /\ ENABLE_PRICE_ALERTS /\ RemInit /\ LoopInit /\ FxInit
    /\ ApiInit({DefaultKey}) /\ HandlerInit

SpecReminders == RemindersInit /\ [][RemNext]_vars

\* the two loops on the event loop
SpecLoops == Init /\ [][LoopNext]_vars

\* the same, under the scheduling of the event loop: a task that can run is
\* run, a sleep ends, a send comes back
SpecLoopsFair == SpecLoops /\ LoopFairness

\* the rate conversion
SpecCurrency == Init /\ [][FxNext]_vars

\* the provider searches, under every key the settings may hold
SearchInit ==
    /\ AlertInit /\ RemInit /\ rnow = 0 /\ LoopInit /\ FxInit
    /\ ApiInit(ApiKeys) /\ HandlerInit

SpecSearch == SearchInit /\ [][ApiNext]_vars

\* the alert handlers of a chat session
SpecHandlers == Init /\ [][HandlerNext]_vars

====
